---- MODULE Spec2Model ----
(***************************************************************************)
(* react-kindergarten: descendants register themselves, in render order,   *)
(* with an ancestor coordinator.                                           *)
(*                                                                         *)
(* Part I models <Kindergarten> (internal registry with onAdd / onUpdate / *)
(* onRemove hooks, useKindergarten, useUpdate) driven by the host          *)
(* framework's render and commit phases for a keyed list of descendants.   *)
(* Records are identified by the number of the register() call that made   *)
(* them; indices handed to observers are 0-based as in the source.         *)
(*                                                                         *)
(* Part II models <Kindergarden>, the coordinator that pushes its records  *)
(* onto a registry array supplied by its owner (onRegister, handles with   *)
(* updateData / ref / unregister) and its useKindergarden.                 *)
(*                                                                         *)
(* Part III models context resolution: descendants that call               *)
(* useKindergarten / useUpdate with the default or a custom context, each  *)
(* of which has a <Kindergarten> bound to it or not.                       *)
(***************************************************************************)
EXTENDS Integers, Sequences, FiniteSets, TLC

\* ---------------------------------------------------------------- bounds
NumChildren == 2
MaxRefs == 4
MaxUpdates == 2
MaxEntries == 3

Children == 1..NumChildren

\* ---------------------------------------------------------------- values
Null == "null"
El(c) == <<"el1", "el2", "el3", "el4">>[c]
Data == {"a"}
Datas == {"a", "b"}
Contexts == {"default", "custom"}
Unset == "unset"
\* the setters a consumer captured: those of the first two register() calls
held == {1, 2}
None == "none"
Mirror == "mirror"
Spy == "spy"

VARIABLES
  state,          \* registry: the array of records (ids), Kindergarten.tsx:513
  current,        \* ref.current / setData.current of every record made so far
  hooks,          \* registry.hooks: the observer bound to each hook, or None
  entries,        \* the list of the createRegistry() whose callbacks are bound
  nextRef,        \* number of the next record register() makes
  triggerUpdate,  \* useState<symbol> of the coordinator
  register,       \* identity of the memoized context value
  pendingUpdate,  \* setTriggerUpdate was called, the re-render is scheduled
  order,          \* declared (render) order of the descendants: Sorter's texts
  mounted,        \* descendants that are part of the committed tree
  usesRef,        \* the descendants pass the setter as their element's ref
  memo,           \* per descendant: record of the useMemo'd handle, 0 if none
  memoDep,        \* per descendant: the context value the handle was made from
  cleanup,        \* per descendant: record whose unregister the effect holds
  refcb,          \* per descendant: record whose setter is attached as ref
  isInitial,      \* useUpdate: isInitial.current
  ignoreInitial,  \* useUpdate: the option
  depsChanged,    \* useUpdate: dependency list differs from the last effect's
  phase,          \* position of the host framework in a render pass
  queue,          \* descendants the current phase still has to visit
  deleted,        \* descendants the current pass removes from the tree
  resync,         \* the current / last pass was started by update()
  notes,          \* observer calls made by the last step
  trace,          \* observer calls made by the steps of the current / last pass
  lastOp,         \* the handle operation the last step performed
  mirrorOk,       \* createRegistry's callbacks were bound from the start
  owner,          \* the descendant whose evaluation made each record
  addedAt,        \* the index each record got when it was added
  atRequest,      \* the registry when update() was last called
  dataAtRequest,  \* the values of its records at that moment
  alive,          \* the tree has not been unmounted
  \* ---- Part II
  registryCurrent,  \* registry.current: the owner's array of entries (ids)
  kinds,            \* per entry made so far: [el |-> $el, data |-> data]
  onRegister,       \* the onRegister prop is bound
  handle,           \* per descendant: entry of the useMemo'd handle, 0 if none
  prevData,         \* per descendant: data of the previous evaluation, or Unset
  dataProp,         \* per descendant: data supplied to the current evaluation
  teardown,         \* per descendant: entry whose unregister the effect holds
  step,             \* position of the host framework in a descendant's pass
  kid,              \* the descendant whose pass is in progress, 0 if none
  announced,        \* entries handed to onRegister by the last step
  lastCall,         \* the handle operation the last step performed
  outside,          \* the tree has no <Kindergarden>
  optional,         \* the optional option passed to useKindergarden
  returned,         \* per descendant: what useKindergarden gave it
  \* ---- Part III
  provided,         \* per context: a <Kindergarten context={...}> is bound
  regs,             \* per context: the state array of its coordinator
  cell,             \* ref.current of every live record
  home,             \* the context of the coordinator that made each live record
  trig,             \* per context: triggerUpdate state of its coordinator
  using,            \* per descendant: the context option it passes
  opt,              \* the optional option the descendants pass
  got,              \* per descendant: memoized handle (record, noop, 0: none)
  gotFrom,          \* per descendant: the register the handle was made from
  fx,               \* per descendant: handle whose unregister the effect holds
  attached,         \* per descendant: handle whose setData is attached as ref
  at,               \* per descendant: its position in the host framework
  thrown,           \* the hook whose evaluation threw, if any
  heard             \* observer calls made by the last step

nursery == <<provided, regs, cell, home, trig, using, opt, got,
             gotFrom, fx, attached, at, thrown, heard>>

setup == <<onRegister, outside, optional>>

kindergarden == <<registryCurrent, kinds, setup, handle, prevData, dataProp,
                  teardown, step, kid, announced, lastCall, returned>>

kindergarten == <<state, current, hooks, entries, nextRef, triggerUpdate,
                  register, pendingUpdate, order, mounted, usesRef, memo,
                  memoDep, cleanup, refcb, isInitial, ignoreInitial,
                  depsChanged, phase, queue, deleted, resync, notes, trace,
                  lastOp, mirrorOk, owner, addedAt, atRequest, dataAtRequest,
                  alive>>

vars == <<kindergarten, kindergarden, nursery>>

\* groups of variables that change together
options == <<usesRef, ignoreInitial>>
updater == <<triggerUpdate, pendingUpdate, isInitial, depsChanged, atRequest,
             dataAtRequest>>
fibers == <<memo, memoDep, cleanup, refcb>>
tree == <<order, mounted, alive>>
\* the report of the pass in progress or just completed
report == <<resync, trace>>

\* ------------------------------------------------------- array primitives
Min(a, b) == IF a < b THEN a ELSE b
Max(a, b) == IF a > b THEN a ELSE b
Range(s) == {s[i] : i \in 1..Len(s)}

\* Array.prototype.indexOf: first position (0-based) of x, -1 when absent
IndexOf(arr, x) ==
  IF \E i \in 1..Len(arr) : arr[i] = x
  THEN (CHOOSE i \in 1..Len(arr) :
          arr[i] = x /\ \A j \in 1..(i - 1) : arr[j] # x) - 1
  ELSE -1

\* Array.prototype.splice(start, deleteCount, ...items): the array afterwards
Splice(arr, start, deleteCount, items) ==
  LET len == Len(arr)
      s == IF start < 0 THEN Max(len + start, 0) ELSE Min(start, len)
      d == Min(Max(deleteCount, 0), len - s)
  IN SubSeq(arr, 1, s) \o items \o SubSeq(arr, s + d + 1, len)

\* sequences over S without repetition
Orders(S) ==
  UNION {{f \in [1..n -> S] : \A i, j \in 1..n : i # j => f[i] # f[j]} :
           n \in 0..Cardinality(S)}

\* ------------------------------------------------------------- observers
Call(hook, index, data, rec) ==
  [hook |-> hook, index |-> index, data |-> data, rec |-> rec, obs |-> None]

\* createRegistry(): the consumer's callbacks over its own list
onAdd(list) == Append(list, Null)
onUpdate(list, index, entry) == Splice(list, index, 1, <<entry>>)
onRemove(list, index) == Splice(list, index, 1, <<>>)

MirrorApply(list, call) ==
  CASE call.hook = "onAdd" -> onAdd(list)
    [] call.hook = "onUpdate" -> onUpdate(list, call.index, call.data)
    [] call.hook = "onRemove" -> onRemove(list, call.index)

\* hooks.onX?.(...): call the bound observer, if any
Observe(obs, call) ==
  /\ notes' = IF obs = None THEN <<>> ELSE <<[call EXCEPT !.obs = obs]>>
  /\ entries' = IF obs = Mirror THEN MirrorApply(entries, call) ELSE entries

\* the calls of a step of a pass are added to the pass's report
Log == trace' = trace \o notes'

NoObserve == notes' = <<>> /\ UNCHANGED entries

\* the props a coordinator is rendered with
AllMirror == [onAdd |-> Mirror, onUpdate |-> Mirror, onRemove |-> Mirror]
AllSpy == [onAdd |-> Spy, onUpdate |-> Spy, onRemove |-> Spy]
NoHooks == [onAdd |-> None, onUpdate |-> None, onRemove |-> None]
HookConfigs == {AllMirror, AllSpy, NoHooks}

\* --------------------------------------------------------------- registry
registry_add_front(data) ==
  /\ state' = <<data>> \o state
  /\ Observe(hooks.onAdd, Call("onAdd", -1, Null, data))

registry_add(data) ==
  /\ state' = Append(state, data)
  /\ Observe(hooks.onAdd, Call("onAdd", -1, Null, data))

\* first position (0-based) of a record whose value equals that of data
IndexOfValue(arr, data) ==
  IF \E i \in 1..Len(arr) : current[arr[i]] = current[data]
  THEN (CHOOSE i \in 1..Len(arr) :
          /\ current[arr[i]] = current[data]
          /\ \A j \in 1..(i - 1) : current[arr[j]] # current[data]) - 1
  ELSE -1

updateIndexByValue(data) == IndexOfValue(state, data)

updateIndex(data) == IndexOf(state, data)

registry_update_unchecked(data, value) ==
  /\ state' = state
  /\ IF hooks.onUpdate # None
     THEN Observe(hooks.onUpdate,
                  Call("onUpdate", updateIndex(data), value, data))
     ELSE NoObserve

registry_update(data, value) ==
  /\ state' = state
  /\ IF hooks.onUpdate # None
     THEN LET index == updateIndex(data)
          IN IF index # -1
             THEN Observe(hooks.onUpdate,
                          Call("onUpdate", index, value, data))
             ELSE NoObserve
     ELSE NoObserve

removeIndexByValue(data) == IndexOfValue(state, data)

removeIndex(data) == IndexOf(state, data)

registry_remove_unchecked(data) ==
  LET index == removeIndex(data)
  IN /\ state' = Splice(state, index, 1, <<>>)
     /\ Observe(hooks.onRemove, Call("onRemove", index, Null, data))

registry_remove(data) ==
  LET index == removeIndex(data)
  IN IF index # -1
     THEN /\ state' = Splice(state, index, 1, <<>>)
          /\ Observe(hooks.onRemove, Call("onRemove", index, Null, data))
     ELSE /\ state' = state
          /\ NoObserve

\* ------------------------------------------------------- handle operations
callbackShared(c) ==
  /\ current' = current @@ (nextRef :> Null)
  /\ owner' = owner @@ (nextRef :> c)
  /\ addedAt' = addedAt @@ (nextRef :> Len(state))
  /\ registry_add(nextRef)
  /\ nextRef' = nextRef
  /\ lastOp' = [op |-> "register", rec |-> nextRef]

callbackCarry(c) ==
  /\ current' = current @@ (nextRef :> IF memo[c] # 0 THEN current[memo[c]]
                                       ELSE Null)
  /\ owner' = owner @@ (nextRef :> c)
  /\ addedAt' = addedAt @@ (nextRef :> Len(state))
  /\ registry_add(nextRef)
  /\ nextRef' = nextRef + 1
  /\ lastOp' = [op |-> "register", rec |-> nextRef]

\* register(): const ref = {current: null}; registry.add(ref); setData.current = null
callback(c) ==
  /\ current' = current @@ (nextRef :> Null)
  /\ owner' = owner @@ (nextRef :> c)
  /\ addedAt' = addedAt @@ (nextRef :> Len(state))
  /\ registry_add(nextRef)
  /\ nextRef' = nextRef + 1
  /\ lastOp' = [op |-> "register", rec |-> nextRef]

setDataSilent(ref, data) ==
  /\ current' = [current EXCEPT ![ref] = data]
  /\ lastOp' = [op |-> "setData", rec |-> ref]
  /\ NoObserve
  /\ UNCHANGED <<state, nextRef, owner, addedAt>>

\* setData(data): ref.current = data; setData.current = data; registry.update(ref)
setData(ref, data) ==
  /\ current' = [current EXCEPT ![ref] = data]
  /\ registry_update(ref, data)
  /\ lastOp' = [op |-> "setData", rec |-> ref]
  /\ UNCHANGED <<nextRef, owner, addedAt>>

\* unregister(): registry.remove(ref)
unregister(ref) ==
  /\ registry_remove(ref)
  /\ lastOp' = [op |-> "unregister", rec |-> ref]
  /\ UNCHANGED <<current, nextRef, owner, addedAt>>

NoOp ==
  /\ lastOp' = [op |-> "none", rec |-> 0]
  /\ notes' = <<>>
  /\ UNCHANGED <<state, current, entries, nextRef, owner, addedAt>>

\* ------------------------------------------------------------------- Init
InitKindergarten ==
  /\ state = <<>>
  /\ current = <<>>
  /\ hooks = AllMirror
  /\ entries = <<>>
  /\ nextRef = 1
  /\ triggerUpdate = 0
  /\ register = 0
  /\ pendingUpdate = FALSE
  /\ order = <<>>
  /\ mounted = {}
  /\ usesRef \in BOOLEAN
  /\ memo = [c \in Children |-> 0]
  /\ memoDep = [c \in Children |-> 0]
  /\ cleanup = [c \in Children |-> 0]
  /\ refcb = [c \in Children |-> 0]
  /\ ignoreInitial \in BOOLEAN
  /\ isInitial = ignoreInitial
  /\ depsChanged = TRUE
  /\ phase = "idle"
  /\ queue = <<>>
  /\ deleted = <<>>
  /\ resync = FALSE
  /\ notes = <<>>
  /\ trace = <<>>
  /\ lastOp = [op |-> "none", rec |-> 0]
  /\ mirrorOk = TRUE
  /\ owner = <<>>
  /\ addedAt = <<>>
  /\ atRequest = <<>>
  /\ dataAtRequest = <<>>
  /\ alive = TRUE

InitKindergarden ==
  /\ registryCurrent = <<>>
  /\ kinds = <<>>
  /\ handle = [c \in Children |-> 0]
  /\ prevData = [c \in Children |-> Unset]
  /\ dataProp = [c \in Children |-> Unset]
  /\ teardown = [c \in Children |-> 0]
  /\ step = "idle"
  /\ kid = 0
  /\ announced = <<>>
  /\ lastCall = [op |-> "none", rec |-> 0, first |-> FALSE, changed |-> FALSE]
  /\ returned = [c \in Children |-> "none"]

\* The symbols held in triggerUpdate, and the registers memoized from them,
\* are only ever compared for identity with the current one; they are named
\* by age: the one the current register was made from, a newer one that
\* update() has stored, and any older one.
Older == 0
Current == 1
Newer == 2

InitNursery ==
  /\ regs = [g \in Contexts |-> <<>>]
  /\ cell = [r \in 1..MaxRefs |-> Null]
  /\ home = [r \in 1..MaxRefs |-> "none"]
  /\ trig = [g \in Contexts |-> Current]
  /\ got = [k \in Children |-> 0]
  /\ gotFrom = [k \in Children |-> 0]
  /\ fx = [k \in Children |-> 0]
  /\ attached = [k \in Children |-> 0]
  /\ at = [k \in Children |-> "out"]
  /\ thrown = "none"
  /\ heard = <<>>

\* the options of a tree that is not under study
NoNursery ==
  /\ provided = [g \in Contexts |-> FALSE]
  /\ using = [k \in Children |-> "default"]
  /\ opt = FALSE

\* a tree with a <Kindergarten>
Init ==
  /\ InitKindergarten
  /\ InitKindergarden
  /\ onRegister = FALSE
  /\ outside = FALSE
  /\ optional = FALSE
  /\ InitNursery
  /\ NoNursery

\* ------------------------------------------------- work lists of the phases
\* useMemo(() => register(), [register]): the handle has to be (re)made
memoStaleOnce(c) == memo[c] = 0

memoStaleAlways(c) == TRUE

memoStale(c) == memo[c] = 0 \/ memoDep[c] # register

DetachWorkReplaced(del, ord) ==
  SelectSeq(ord, LAMBDA c : refcb[c] # 0 /\ refcb[c] # memo[c])

\* elements whose ref callback is called with null: those leaving the tree and
\* those whose ref callback is another function than the one attached
DetachWork(del, ord) ==
  SelectSeq(del, LAMBDA c : refcb[c] # 0)
    \o SelectSeq(ord, LAMBDA c : refcb[c] # 0 /\ refcb[c] # memo[c])

AttachWorkAll(ord) ==
  SelectSeq(ord, LAMBDA c : usesRef)

\* elements whose ref callback is called with the element
AttachWork(ord) ==
  SelectSeq(ord, LAMBDA c : usesRef /\ refcb[c] # memo[c])

CleanupWorkOnUnmount(del, ord) ==
  SelectSeq(del, LAMBDA c : cleanup[c] # 0)

\* useEffect(..., [unregister]) cleanups to run: those of descendants leaving
\* the tree and those whose unregister is another function than the effect's
CleanupWork(del, ord) ==
  SelectSeq(del, LAMBDA c : cleanup[c] # 0)
    \o SelectSeq(ord, LAMBDA c : cleanup[c] # 0 /\ cleanup[c] # memo[c])

\* useEffect(..., [unregister]) effects to set up
EffectWork(ord) ==
  SelectSeq(ord, LAMBDA c : cleanup[c] # memo[c])

\* register() calls that setChildren(newOrder) leads to: one per new
\* descendant, and one per descendant if useUpdate then requests a resync
Registrations(newOrder) ==
  Cardinality(Range(newOrder) \ mounted)
    + (IF isInitial THEN 0 ELSE Len(newOrder))

\* --------------------------------------------------------------- actions
\* resync, trace and atRequest describe the pass in progress or just
\* completed: whatever happens next outside a pass ends that
Forget ==
  /\ resync' = FALSE
  /\ trace' = <<>>
  /\ atRequest' = IF pendingUpdate THEN atRequest ELSE <<>>
  /\ dataAtRequest' = IF pendingUpdate THEN dataAtRequest ELSE <<>>

\* Sorter: setChildren(newOrder) and the render it schedules
SetChildren(newOrder) ==
  /\ phase = "idle"
  /\ alive
  /\ ~pendingUpdate
  /\ triggerUpdate < MaxUpdates
  /\ (nextRef - 1) + Registrations(newOrder) <= MaxRefs
  /\ order' = newOrder
  /\ depsChanged' = TRUE
  /\ phase' = "render"
  /\ queue' = newOrder
  /\ deleted' = SelectSeq(order, LAMBDA c : c \notin Range(newOrder))
  /\ resync' = FALSE
  /\ trace' = <<>>
  /\ NoOp
  /\ atRequest' = <<>>
  /\ dataAtRequest' = <<>>
  /\ UNCHANGED <<hooks, mirrorOk, register, options, fibers, mounted, alive,
                 triggerUpdate, pendingUpdate, isInitial>>
  /\ UNCHANGED <<kindergarden, nursery>>

\* root.unmount(): the whole tree, coordinator included, is removed; work
\* that was scheduled is dropped
Unmount ==
  /\ phase = "idle"
  /\ alive
  /\ alive' = FALSE
  /\ order' = <<>>
  /\ pendingUpdate' = FALSE
  /\ phase' = "render"
  /\ queue' = <<>>
  /\ deleted' = order
  /\ resync' = FALSE
  /\ trace' = <<>>
  /\ atRequest' = <<>>
  /\ dataAtRequest' = <<>>
  /\ NoOp
  /\ UNCHANGED <<hooks, mirrorOk, register, options, fibers, mounted,
                 triggerUpdate, isInitial, depsChanged>>
  /\ UNCHANGED <<kindergarden, nursery>>

\* Kindergarten re-renders after setTriggerUpdate: the register memo is rebuilt
\* and, the context value being new, every consumer is evaluated again
BeginResync ==
  /\ phase = "idle"
  /\ pendingUpdate
  /\ pendingUpdate' = FALSE
  /\ register' = triggerUpdate
  /\ hooks' = hooks
  /\ phase' = "render"
  /\ queue' = order
  /\ deleted' = <<>>
  /\ resync' = TRUE
  /\ trace' = <<>>
  /\ NoOp
  /\ UNCHANGED <<mirrorOk, options, fibers, tree, triggerUpdate, isInitial,
                 depsChanged, atRequest, dataAtRequest>>
  /\ UNCHANGED <<kindergarden, nursery>>

RebindRemake(props) ==
  /\ phase = "idle"
  /\ alive
  /\ ~pendingUpdate
  /\ props # hooks
  /\ hooks' = props
  /\ mirrorOk' = FALSE
  /\ entries' = <<>>
  /\ Forget
  /\ lastOp' = [op |-> "none", rec |-> 0]
  /\ notes' = <<>>
  /\ state' = <<>>
  /\ register' = register + 1
  /\ UNCHANGED <<current, nextRef, owner, addedAt>>
  /\ UNCHANGED <<options, fibers, tree, phase, queue, deleted,
                 triggerUpdate, pendingUpdate, isInitial, depsChanged>>
  /\ UNCHANGED <<kindergarden, nursery>>

\* Kindergarten re-renders with other callback props: those of a new
\* createRegistry(), jest.fn()s, or none
Rebind(props) ==
  /\ phase = "idle"
  /\ alive
  /\ ~pendingUpdate
  /\ props # hooks
  /\ hooks' = props
  /\ mirrorOk' = FALSE
  /\ entries' = <<>>
  /\ Forget
  /\ lastOp' = [op |-> "none", rec |-> 0]
  /\ notes' = <<>>
  /\ UNCHANGED <<state, current, nextRef, owner, addedAt>>
  /\ UNCHANGED <<register, options, fibers, tree, phase, queue, deleted,
                 triggerUpdate, pendingUpdate, isInitial, depsChanged>>
  /\ UNCHANGED <<kindergarden, nursery>>

\* useKindergarten: useMemo(() => register(), [register])
RenderChild ==
  /\ phase = "render"
  /\ queue # <<>>
  /\ LET c == Head(queue)
     IN IF memoStale(c)
        THEN /\ callback(c)
             /\ memo' = [memo EXCEPT ![c] = nextRef]
             /\ memoDep' = [memoDep EXCEPT ![c] = register]
        ELSE /\ NoOp
             /\ UNCHANGED <<memo, memoDep>>
  /\ Log
  /\ queue' = Tail(queue)
  /\ UNCHANGED <<hooks, mirrorOk, register, options, updater, cleanup, refcb,
                 tree, phase, deleted, resync>>
  /\ UNCHANGED <<kindergarden, nursery>>

\* the host framework moves from one phase of the pass to the next
NextPhase ==
  /\ queue = <<>>
  /\ phase \in {"render", "mutation", "layout", "passiveUnmount"}
  /\ CASE phase = "render" ->
            /\ phase' = "mutation"
            /\ mounted' = Range(order)
            /\ memo' = [c \in Children |->
                          IF c \in Range(deleted) THEN 0 ELSE memo[c]]
            /\ queue' = DetachWork(deleted, order)
       [] phase = "mutation" ->
            /\ phase' = "layout"
            /\ queue' = AttachWork(order)
            /\ UNCHANGED <<mounted, memo>>
       [] phase = "layout" ->
            /\ phase' = "passiveUnmount"
            /\ queue' = CleanupWork(deleted, order)
            /\ UNCHANGED <<mounted, memo>>
       [] phase = "passiveUnmount" ->
            /\ phase' = IF alive THEN "passiveMount" ELSE "idle"
            /\ queue' = EffectWork(order)
            /\ UNCHANGED <<mounted, memo>>
  /\ NoOp
  /\ UNCHANGED <<hooks, mirrorOk, register, options, updater, memoDep, cleanup,
                 refcb, order, alive, deleted, resync, trace>>
  /\ UNCHANGED <<kindergarden, nursery>>

\* the element's old ref callback is called with null
DetachRef ==
  /\ phase = "mutation"
  /\ queue # <<>>
  /\ LET c == Head(queue)
     IN /\ setData(refcb[c], Null)
        /\ refcb' = [refcb EXCEPT ![c] = 0]
  /\ Log
  /\ queue' = Tail(queue)
  /\ UNCHANGED <<hooks, mirrorOk, register, options, updater, memo, memoDep,
                 cleanup, tree, phase, deleted, resync>>
  /\ UNCHANGED <<kindergarden, nursery>>

\* the element's ref callback is called with the element
AttachRef ==
  /\ phase = "layout"
  /\ queue # <<>>
  /\ LET c == Head(queue)
     IN /\ setData(memo[c], El(c))
        /\ refcb' = [refcb EXCEPT ![c] = memo[c]]
  /\ Log
  /\ queue' = Tail(queue)
  /\ UNCHANGED <<hooks, mirrorOk, register, options, updater, memo, memoDep,
                 cleanup, tree, phase, deleted, resync>>
  /\ UNCHANGED <<kindergarden, nursery>>

\* useEffect(() => () => unregister(), [unregister]): the cleanup runs
EffectCleanup ==
  /\ phase = "passiveUnmount"
  /\ queue # <<>>
  /\ LET c == Head(queue)
     IN /\ unregister(cleanup[c])
        /\ cleanup' = [cleanup EXCEPT ![c] = 0]
  /\ Log
  /\ queue' = Tail(queue)
  /\ UNCHANGED <<hooks, mirrorOk, register, options, updater, memo, memoDep,
                 refcb, tree, phase, deleted, resync>>
  /\ UNCHANGED <<kindergarden, nursery>>

\* useEffect(() => () => unregister(), [unregister]): the effect is set up
EffectMount ==
  /\ phase = "passiveMount"
  /\ queue # <<>>
  /\ LET c == Head(queue)
     IN cleanup' = [cleanup EXCEPT ![c] = memo[c]]
  /\ queue' = Tail(queue)
  /\ NoOp
  /\ UNCHANGED <<hooks, mirrorOk, register, options, updater, memo, memoDep,
                 refcb, tree, phase, deleted, resync, trace>>
  /\ UNCHANGED <<kindergarden, nursery>>

UseUpdateEffectEager ==
  /\ phase = "passiveMount"
  /\ queue = <<>>
  /\ phase' = "idle"
  /\ depsChanged' = FALSE
  /\ IF depsChanged
     THEN /\ triggerUpdate' = triggerUpdate + 1
          /\ pendingUpdate' = TRUE
          /\ atRequest' = state
          /\ dataAtRequest' = [i \in 1..Len(state) |-> current[state[i]]]
          /\ isInitial' = FALSE
     ELSE UNCHANGED <<isInitial, triggerUpdate, pendingUpdate, atRequest,
                      dataAtRequest>>
  /\ NoOp
  /\ UNCHANGED <<hooks, mirrorOk, register, options, fibers, tree, queue,
                 deleted, resync, trace>>
  /\ UNCHANGED <<kindergarden, nursery>>

\* useUpdate's effect, the last one of the pass (Sorter is the list's parent):
\* if (isInitial.current) { isInitial.current = false; return } register.update()
UseUpdateEffect ==
  /\ phase = "passiveMount"
  /\ queue = <<>>
  /\ phase' = "idle"
  /\ depsChanged' = FALSE
  /\ IF depsChanged
     THEN IF isInitial
          THEN /\ isInitial' = FALSE
               /\ UNCHANGED <<triggerUpdate, pendingUpdate, atRequest,
                              dataAtRequest>>
          ELSE /\ triggerUpdate' = triggerUpdate + 1
               /\ pendingUpdate' = TRUE
               /\ atRequest' = state
               /\ dataAtRequest' = [i \in 1..Len(state) |-> current[state[i]]]
               /\ UNCHANGED isInitial
     ELSE UNCHANGED <<isInitial, triggerUpdate, pendingUpdate, atRequest,
                      dataAtRequest>>
  /\ NoOp
  /\ UNCHANGED <<hooks, mirrorOk, register, options, fibers, tree, queue,
                 deleted, resync, trace>>
  /\ UNCHANGED <<kindergarden, nursery>>

\* a consumer calls a setter it captured (possibly after its record is gone)
CallSetData(ref, data) ==
  /\ phase = "idle"
  /\ ref \in held
  /\ ref \in 1..(nextRef - 1)
  /\ current[ref] # data
  /\ setData(ref, data)
  /\ Forget
  /\ UNCHANGED <<hooks, mirrorOk, register, options, fibers, tree, phase,
                 queue, deleted, triggerUpdate, pendingUpdate, isInitial,
                 depsChanged>>
  /\ UNCHANGED <<kindergarden, nursery>>

\* unregister() of a handle whose record was removed before is called again
RedundantTeardown(ref) ==
  /\ phase = "idle"
  /\ ref \in 1..(nextRef - 1)
  /\ ref \notin Range(state)
  /\ unregister(ref)
  /\ Forget
  /\ UNCHANGED <<hooks, mirrorOk, register, options, fibers, tree, phase,
                 queue, deleted, triggerUpdate, pendingUpdate, isInitial,
                 depsChanged>>
  /\ UNCHANGED <<kindergarden, nursery>>

Next ==
  \/ \E newOrder \in Orders(Children) : SetChildren(newOrder)
  \/ Unmount
  \/ BeginResync
  \/ \E props \in HookConfigs : Rebind(props)
  \/ RenderChild
  \/ NextPhase
  \/ DetachRef
  \/ AttachRef
  \/ EffectCleanup
  \/ EffectMount
  \/ UseUpdateEffect
  \/ \E ref \in 1..MaxRefs, data \in Data : CallSetData(ref, data)
  \/ \E ref \in 1..MaxRefs : RedundantTeardown(ref)

Spec == Init /\ [][Next]_vars

\* the host framework completes every pass it has begun and runs every
\* re-render that was scheduled
Pass ==
  \/ BeginResync
  \/ RenderChild
  \/ NextPhase
  \/ DetachRef
  \/ AttachRef
  \/ EffectCleanup
  \/ EffectMount
  \/ UseUpdateEffect

\* a tree whose coordinator keeps the callbacks it was mounted with, under a
\* host framework that completes its passes
NextBound ==
  \/ \E newOrder \in Orders(Children) : SetChildren(newOrder)
  \/ Unmount
  \/ Pass
  \/ \E ref \in 1..MaxRefs, data \in Data : CallSetData(ref, data)

LiveSpec == Init /\ [][NextBound]_vars /\ WF_vars(Pass)

\* ================================================== Part II: <Kindergarden>
NoCall == [op |-> "none", rec |-> 0, first |-> FALSE, changed |-> FALSE]
Did(op, e) == [op |-> op, rec |-> e, first |-> FALSE, changed |-> FALSE]

\* register(data): const entry = {$el: null, data};
\* registry.current.push(entry); onRegisterRef.current?.(entry)
registerKind(data) ==
  LET e == Len(kinds) + 1
  IN /\ kinds' = Append(kinds, [el |-> Null, data |-> data])
     /\ registryCurrent' = Append(registryCurrent, e)
     /\ announced' = IF onRegister THEN <<e>> ELSE <<>>
     /\ lastCall' = Did("register", e)

\* updateData(data): entry.data = data
updateData(e, data) ==
  /\ kinds' = [kinds EXCEPT ![e].data = data]
  /\ announced' = <<>>
  /\ UNCHANGED registryCurrent

refKindCopy(e, element) ==
  /\ kinds' = Append(kinds, [kinds[e] EXCEPT !.el = element])
  /\ registryCurrent' = [i \in 1..Len(registryCurrent) |->
                          IF registryCurrent[i] = e THEN Len(kinds) + 1
                          ELSE registryCurrent[i]]
  /\ announced' = <<>>
  /\ lastCall' = Did("ref", Len(kinds) + 1)

\* ref(element): entry.$el = element
refKind(e, element) ==
  /\ kinds' = [kinds EXCEPT ![e].el = element]
  /\ announced' = <<>>
  /\ lastCall' = Did("ref", e)
  /\ UNCHANGED registryCurrent

\* unregister(): registry.current.splice(registry.current.indexOf(entry), 1)
unregisterKind(e) ==
  /\ registryCurrent' =
       Splice(registryCurrent, IndexOf(registryCurrent, e), 1, <<>>)
  /\ announced' = <<>>
  /\ lastCall' = Did("unregister", e)
  /\ UNCHANGED kinds

\* a tree with a <Kindergarden registry={registry}>
InitA ==
  /\ InitKindergarten
  /\ usesRef = FALSE
  /\ ignoreInitial = TRUE
  /\ InitKindergarden
  /\ onRegister \in BOOLEAN
  /\ outside \in BOOLEAN
  /\ optional \in BOOLEAN
  /\ InitNursery
  /\ NoNursery

\* a descendant is evaluated with data, for the first time (it mounts) or
\* again: const {ref, unregister, updateData} = useMemo(() => register(data),
\* [register])
Evaluate(c, data) ==
  /\ step = "idle"
  /\ ~outside
  /\ returned' = [returned EXCEPT ![c] = "ref"]
  /\ kid' = c
  /\ dataProp' = [dataProp EXCEPT ![c] = data]
  /\ IF handle[c] = 0
     THEN /\ Len(kinds) < MaxEntries
          /\ registerKind(data)
          /\ handle' = [handle EXCEPT ![c] = Len(kinds) + 1]
          /\ step' = "layout"
     ELSE /\ lastCall' = NoCall
          /\ announced' = <<>>
          /\ step' = "passive"
          /\ UNCHANGED <<registryCurrent, kinds, handle>>
  /\ UNCHANGED <<setup, prevData, teardown>>
  /\ UNCHANGED <<kindergarten, nursery>>

\* a descendant is evaluated in a tree without a <Kindergarden>: useContext
\* gives null, and useKindergarden throws, or returns nothing when optional
EvaluateOutside(c) ==
  /\ step = "idle"
  /\ outside
  /\ \A d \in Children : returned[d] # "thrown"
  /\ returned[c] = "none"
  /\ returned' = [returned EXCEPT ![c] =
                    IF optional THEN "undefined" ELSE "thrown"]
  /\ lastCall' = NoCall
  /\ announced' = <<>>
  /\ UNCHANGED <<registryCurrent, kinds, setup, handle, prevData, dataProp,
                 teardown, step, kid>>
  /\ UNCHANGED <<kindergarten, nursery>>

\* ... and leaves the tree again: it has no ref callback and no effect
RemoveOutside(c) ==
  /\ step = "idle"
  /\ returned[c] = "undefined"
  /\ returned' = [returned EXCEPT ![c] = "none"]
  /\ lastCall' = NoCall
  /\ announced' = <<>>
  /\ UNCHANGED <<registryCurrent, kinds, setup, handle, prevData, dataProp,
                 teardown, step, kid>>
  /\ UNCHANGED <<kindergarten, nursery>>

\* the mounted element's ref callback is called with the element
AttachKind ==
  /\ step = "layout"
  /\ refKind(handle[kid], El(kid))
  /\ step' = "passive"
  /\ UNCHANGED <<setup, handle, prevData, dataProp, teardown, kid>>
  /\ UNCHANGED <<returned, kindergarten, nursery>>

\* useEffect(() => { updateData(data) }, [updateData, data]): the effect runs
\* after the first evaluation and after one whose dependencies differ
UpdateDataEffect ==
  /\ step = "passive"
  /\ IF prevData[kid] = Unset \/ prevData[kid] # dataProp[kid]
     THEN /\ updateData(handle[kid], dataProp[kid])
          /\ lastCall' = [op |-> "updateData", rec |-> handle[kid],
                          first |-> prevData[kid] = Unset,
                          changed |-> /\ prevData[kid] # Unset
                                      /\ prevData[kid] # dataProp[kid]]
     ELSE /\ lastCall' = NoCall
          /\ announced' = <<>>
          /\ UNCHANGED <<registryCurrent, kinds>>
  /\ prevData' = [prevData EXCEPT ![kid] = dataProp[kid]]
  /\ step' = "teardown"
  /\ UNCHANGED <<setup, handle, dataProp, teardown, kid>>
  /\ UNCHANGED <<returned, kindergarten, nursery>>

\* useEffect(() => () => unregister(), [unregister]): the effect is set up
TeardownEffect ==
  /\ step = "teardown"
  /\ teardown' = [teardown EXCEPT ![kid] = handle[kid]]
  /\ step' = "idle"
  /\ kid' = 0
  /\ lastCall' = NoCall
  /\ announced' = <<>>
  /\ UNCHANGED <<registryCurrent, kinds, setup, handle, prevData,
                 dataProp>>
  /\ UNCHANGED <<returned, kindergarten, nursery>>

\* a descendant leaves the tree: its ref callback is called with null
Remove(c) ==
  /\ step = "idle"
  /\ handle[c] # 0
  /\ kid' = c
  /\ refKind(handle[c], Null)
  /\ step' = "cleanup"
  /\ UNCHANGED <<setup, handle, prevData, dataProp, teardown>>
  /\ UNCHANGED <<returned, kindergarten, nursery>>

\* useEffect(() => () => unregister(), [unregister]): the cleanup runs
CleanupKind ==
  /\ step = "cleanup"
  /\ unregisterKind(teardown[kid])
  /\ handle' = [handle EXCEPT ![kid] = 0]
  /\ teardown' = [teardown EXCEPT ![kid] = 0]
  /\ prevData' = [prevData EXCEPT ![kid] = Unset]
  /\ dataProp' = [dataProp EXCEPT ![kid] = Unset]
  /\ returned' = [returned EXCEPT ![kid] = "none"]
  /\ step' = "idle"
  /\ kid' = 0
  /\ UNCHANGED setup
  /\ UNCHANGED <<kindergarten, nursery>>

\* the owner of the array empties it: registry.current = []
Clear ==
  /\ step = "idle"
  /\ registryCurrent # <<>>
  /\ registryCurrent' = <<>>
  /\ lastCall' = NoCall
  /\ announced' = <<>>
  /\ UNCHANGED <<kinds, setup, handle, prevData, dataProp, teardown,
                 step, kid>>
  /\ UNCHANGED <<returned, kindergarten, nursery>>

\* unregister() of a handle whose entry left the array before is called again
UnregisterAgain(e) ==
  /\ step = "idle"
  /\ e \in 1..Len(kinds)
  /\ e \notin Range(registryCurrent)
  /\ e \notin {handle[c] : c \in Children}
  /\ unregisterKind(e)
  /\ UNCHANGED <<setup, handle, prevData, dataProp, teardown, step, kid>>
  /\ UNCHANGED <<returned, kindergarten, nursery>>

NextA ==
  \/ \E c \in Children, data \in Datas : Evaluate(c, data)
  \/ \E c \in Children : EvaluateOutside(c)
  \/ \E c \in Children : RemoveOutside(c)
  \/ AttachKind
  \/ UpdateDataEffect
  \/ TeardownEffect
  \/ \E c \in Children : Remove(c)
  \/ CleanupKind
  \/ Clear
  \/ \E e \in 1..MaxEntries : UnregisterAgain(e)

SpecA == InitA /\ [][NextA]_vars

\* ================================================================ Part III
\* context resolution of useKindergarten and useUpdate

\* what useKindergarten uses in place of a coordinator's register
noopRegister == -1


Heard(g, hook, index, data) ==
  [garden |-> g, hook |-> hook, index |-> index, data |-> data]

\* the registries, the records and the observer calls made so far in a step
Gardens(r, c, h) == [regs |-> r, cell |-> c, heard |-> h]

\* useContext(context): the value bound to the context the caller names
resolveDefault(k) == "default"

resolve(k) == using[k]

\* the register that useKindergarten works with
registerOf(k) ==
  IF provided[resolve(k)] THEN Current ELSE noopRegister

throwsNever(k) == FALSE

throws(k) == registerOf(k) = noopRegister /\ ~opt

\* registry.add of the coordinator bound to g
garden_add(G, g, r) ==
  Gardens([G.regs EXCEPT ![g] = Append(@, r)], G.cell,
          Append(G.heard, Heard(g, "onAdd", -1, Null)))

\* registry.update of the coordinator that made r
garden_update(G, r) ==
  LET index == IndexOf(G.regs[home[r]], r)
  IN IF index # -1
     THEN Gardens(G.regs, G.cell,
                  Append(G.heard, Heard(home[r], "onUpdate", index, G.cell[r])))
     ELSE G

\* registry.remove of the coordinator that made r
garden_remove(G, r) ==
  LET index == IndexOf(G.regs[home[r]], r)
  IN IF index # -1
     THEN Gardens([G.regs EXCEPT ![home[r]] = Splice(@, index, 1, <<>>)],
                  G.cell,
                  Append(G.heard, Heard(home[r], "onRemove", index, Null)))
     ELSE G

\* setData of handle h: of a record, or of the stand-in
handle_setData(G, h, v) ==
  IF h = noopRegister
  THEN G
  ELSE garden_update(Gardens(G.regs, [G.cell EXCEPT ![h] = v], G.heard), h)

\* unregister of handle h: of a record, or of the stand-in
handle_unregister(G, h) ==
  IF h = noopRegister THEN G ELSE garden_remove(G, h)

\* what a step leaves behind
Settle(G) ==
  /\ regs' = G.regs
  /\ cell' = G.cell
  /\ heard' = G.heard

Quiet == Gardens(regs, cell, <<>>)

\* the records something still refers to: a registry or a descendant's hooks
Live ==
  UNION {Range(regs[g]) : g \in Contexts}
    \cup {got[k] : k \in Children} \cup {fx[k] : k \in Children}
    \cup {attached[k] : k \in Children}

\* a record distinct from every live one
Fresh ==
  CHOOSE r \in (1..MaxRefs) \ Live : \A q \in (1..MaxRefs) \ Live : r <= q

\* the records in R are unreachable from now on
Forgotten(R) ==
  home' = [r \in 1..MaxRefs |-> IF r \in R THEN "none" ELSE home[r]]

\* a pass is under way: some descendant was evaluated and is not committed
InPass == \E k \in Children : at[k] = "rendered"

\* a mounted descendant whose context value has changed
Stale(k) == at[k] = "mounted" /\ gotFrom[k] # registerOf(k)

\* which contexts have a coordinator and what every descendant asks for
InitC ==
  /\ InitKindergarten
  /\ usesRef = FALSE
  /\ ignoreInitial = TRUE
  /\ InitKindergarden
  /\ onRegister = FALSE
  /\ outside = FALSE
  /\ optional = FALSE
  /\ InitNursery
  /\ provided \in [Contexts -> BOOLEAN]
  /\ using \in [Children -> Contexts]
  /\ opt \in BOOLEAN

\* a descendant is evaluated, in tree order: on mount, or when its context
\* value changed
EvaluateChild(k) ==
  /\ thrown = "none"
  /\ at[k] = "out" \/ Stale(k)
  /\ \A j \in Children : j > k => at[j] # "rendered"
  /\ IF throws(k)
     THEN /\ thrown' = "useKindergarten"
          /\ at' = [at EXCEPT ![k] = "failed"]
          /\ Settle(Quiet)
          /\ UNCHANGED <<home, got, gotFrom>>
     ELSE /\ IF registerOf(k) = noopRegister
             THEN /\ got' = [got EXCEPT ![k] = noopRegister]
                  /\ Settle(Quiet)
                  /\ UNCHANGED home
             ELSE /\ (1..MaxRefs) \ Live # {}
                  /\ home' = [home EXCEPT ![Fresh] = resolve(k)]
                  /\ Settle(garden_add(Quiet, resolve(k), Fresh))
                  /\ got' = [got EXCEPT ![k] = Fresh]
          /\ gotFrom' = [gotFrom EXCEPT ![k] = registerOf(k)]
          /\ at' = [at EXCEPT ![k] = "rendered"]
          /\ UNCHANGED thrown
  /\ UNCHANGED <<provided, trig, using, opt, fx, attached>>
  /\ UNCHANGED <<kindergarten, kindergarden>>

\* one kind of commit work for descendant k
CommitWork(G, k, work) ==
  IF at[k] # "rendered" THEN G
  ELSE IF work = "detach"
  THEN IF attached[k] \notin {0, got[k]}
       THEN handle_setData(G, attached[k], Null) ELSE G
  ELSE IF work = "attach"
  THEN handle_setData(G, got[k], El(k))
  ELSE IF fx[k] \notin {0, got[k]}
       THEN handle_unregister(G, fx[k]) ELSE G

RECURSIVE Sweep(_, _, _)
\* one kind of commit work for every descendant from k on, in tree order
Sweep(G, k, work) ==
  IF k > NumChildren THEN G ELSE Sweep(CommitWork(G, k, work), k + 1, work)

\* the pass commits: old setters are called with null, new setters with the
\* element, old unregister effects are cleaned up, new ones installed
Commit ==
  /\ thrown = "none"
  /\ InPass
  /\ \A k \in Children : ~Stale(k)
  /\ Settle(Sweep(Sweep(Sweep(Quiet, 1, "detach"), 1, "attach"), 1, "cleanup"))
  /\ attached' = [k \in Children |->
                    IF at[k] = "rendered" THEN got[k] ELSE attached[k]]
  /\ fx' = [k \in Children |-> IF at[k] = "rendered" THEN got[k] ELSE fx[k]]
  /\ at' = [k \in Children |->
              IF at[k] = "rendered" THEN "mounted" ELSE at[k]]
  /\ Forgotten({fx[k] : k \in {j \in Children : at[j] = "rendered"}})
  /\ UNCHANGED <<provided, trig, using, opt, got, gotFrom, thrown>>
  /\ UNCHANGED <<kindergarten, kindergarden>>

\* the descendant whose setter the application keeps for later calls
keeper == 1

\* the application calls the setter that descendant k was given
UseSetter(k, data) ==
  /\ ~InPass
  /\ at[k] = "mounted"
  /\ Settle(handle_setData(Quiet, got[k], data))
  /\ UNCHANGED <<provided, home, trig, using, opt, got, gotFrom, fx,
                 attached, at, thrown>>
  /\ UNCHANGED <<kindergarten, kindergarden>>

\* a mounted descendant leaves the tree: its setter is called with null, then
\* the clean-up of its unregister effect runs
RemoveChild(k) ==
  /\ ~InPass
  /\ at[k] = "mounted"
  /\ Settle(handle_unregister(handle_setData(Quiet, attached[k], Null), fx[k]))
  /\ attached' = [attached EXCEPT ![k] = 0]
  /\ fx' = [fx EXCEPT ![k] = 0]
  /\ got' = [got EXCEPT ![k] = 0]
  /\ gotFrom' = [gotFrom EXCEPT ![k] = 0]
  /\ at' = [at EXCEPT ![k] = IF thrown = "none" THEN "out" ELSE "failed"]
  /\ Forgotten({fx[k]})
  /\ UNCHANGED <<provided, trig, using, opt, thrown>>
  /\ UNCHANGED <<kindergarten, kindergarden>>

\* a component evaluates useUpdate(deps, {context: g, ignoreInitial: false})
\* with changed dependencies, and its effect runs
EvaluateUseUpdate(g) ==
  /\ thrown = "none"
  /\ ~InPass
  /\ IF ~provided[g]
     THEN /\ thrown' = "useUpdate"
          /\ UNCHANGED trig
     ELSE /\ trig' = [trig EXCEPT ![g] = Newer]
          /\ UNCHANGED thrown
  /\ Settle(Quiet)
  /\ UNCHANGED <<provided, home, using, opt, got, gotFrom, fx,
                 attached, at>>
  /\ UNCHANGED <<kindergarten, kindergarden>>

\* the coordinator bound to g is evaluated again after update()
EvaluateKindergarten(g) ==
  /\ thrown = "none"
  /\ ~InPass
  /\ provided[g]
  /\ trig[g] # Current
  /\ trig' = [trig EXCEPT ![g] = Current]
  /\ gotFrom' = [k \in Children |->
                   IF resolve(k) = g /\ gotFrom[k] = Current
                   THEN Older ELSE gotFrom[k]]
  /\ Settle(Quiet)
  /\ UNCHANGED <<provided, home, using, opt, got, fx, attached, at, thrown>>
  /\ UNCHANGED <<kindergarten, kindergarden>>

NextC ==
  \/ \E k \in Children : EvaluateChild(k)
  \/ Commit
  \/ \E data \in Data : UseSetter(keeper, data)
  \/ \E k \in Children : RemoveChild(k)
  \/ \E g \in Contexts : EvaluateUseUpdate(g)
  \/ \E g \in Contexts : EvaluateKindergarten(g)

SpecC == InitC /\ [][NextC]_vars

\* =================================================================== claims
RegistryOf(ord) == [i \in 1..Len(ord) |-> memo[ord[i]]]
Hooked(hook) == SelectSeq(trace, LAMBDA n : n.hook = hook)
Ascending(s) == \A i, j \in 1..Len(s) : i < j => s[i] < s[j]
Without(s, i) == SubSeq(s, 1, i - 1) \o SubSeq(s, i + 1, Len(s))
Values(s) == [i \in 1..Len(s) |-> current[s[i]]]
\* no resync has started and no handle has been torn down or replaced
OnlyMounts ==
  /\ phase = "idle"
  /\ register = 0
  /\ \A r \in 1..(nextRef - 1) : memo[owner[r]] = r

\* C1 (as stated): after N mounts, with no unmount and no resync, the registry
\* holds N records, one per descendant, in the declared render order.
C1_DeclaredOrder ==
  OnlyMounts =>
    /\ Len(state) = Cardinality(mounted)
    /\ state = RegistryOf(order)

\* C1 (amended): after N mounts, with no unmount and no resync, the registry
\* holds N records, one per descendant, in the order in which the descendants
\* were mounted (registered), and onAdd was notified in that order; this is
\* the declared render order whenever every descendant was mounted after the
\* descendants declared before it.
C1_MountOrder ==
  OnlyMounts =>
    /\ Len(state) = Cardinality(mounted)
    /\ Range(state) = {memo[c] : c \in mounted}
    /\ Ascending(state)
    /\ \A r \in Range(state) : state[addedAt[r] + 1] = r
    /\ LET adds == Hooked("onAdd")
       IN \A i \in 1..Len(adds) :
            adds[i].rec = state[Len(state) - Len(adds) + i]
    /\ Ascending(RegistryOf(order)) => state = RegistryOf(order)

C1_Witness ==
  /\ OnlyMounts
  /\ Len(state) = NumChildren
  /\ Len(Hooked("onAdd")) = NumChildren
  /\ state = RegistryOf(order)

\* C2: unregister() of a record that is in the registry deletes exactly that
\* record, found by identity also when another record has an equal value,
\* calls onRemove once with the index the record had, and keeps the other
\* records in their order.
C2_RemoveExact ==
  [][(lastOp'.op = "unregister" /\ lastOp'.rec \in Range(state)) =>
       LET r == lastOp'.rec
           i == CHOOSE k \in 1..Len(state) : state[k] = r
       IN /\ state' = Without(state, i)
          /\ notes' = IF hooks.onRemove = None THEN <<>>
                      ELSE <<[hook |-> "onRemove", index |-> i - 1,
                              data |-> Null, rec |-> r,
                              obs |-> hooks.onRemove]>>
          /\ current' = current]_vars

C2_Witness ==
  /\ lastOp.op = "unregister"
  /\ Len(notes) = 1
  /\ notes[1].index > 0
  /\ state # <<>>
  /\ current[state[1]] = current[lastOp.rec]

\* C3: once a resync requested through useUpdate has completed, the registry
\* holds exactly one record per mounted descendant, in the descendants'
\* render order, as many as before the resync, and a list maintained by
\* createRegistry's callbacks holds the records' values in that order.
C3_ResyncOrder ==
  (phase = "idle" /\ resync) =>
    /\ state = RegistryOf(order)
    /\ Range(order) = mounted
    /\ Len(state) = Len(atRequest)
    /\ mirrorOk => entries = Values(state)

C3_Witness ==
  /\ phase = "idle"
  /\ resync
  /\ mirrorOk
  /\ Len(order) = NumChildren
  /\ [i \in 1..Len(atRequest) |-> owner[atRequest[i]]] # order
  /\ entries = [i \in 1..Len(order) |-> El(order[i])]

C5_SameRecords ==
  resync => /\ Range(state) \subseteq Range(atRequest)
            /\ Hooked("onAdd") = <<>>
            /\ Hooked("onRemove") = <<>>

\* C5 (amended): update() replaces every record: between the request and the
\* completion one new record per mounted descendant is added (onAdd) and every
\* record of before is removed (onRemove); afterwards the registry holds as
\* many records as before, none of which it held at the request.
C5_ReplacesRecords ==
  (phase = "idle" /\ resync) =>
    /\ Len(state) = Len(atRequest)
    /\ Range(state) \cap Range(atRequest) = {}
    /\ hooks.onAdd # None => Len(Hooked("onAdd")) = Len(atRequest)
    /\ hooks.onRemove # None =>
         /\ Len(Hooked("onRemove")) = Len(atRequest)
         /\ {n.rec : n \in Range(Hooked("onRemove"))} = Range(atRequest)

C5_Witness ==
  /\ phase = "idle"
  /\ resync
  /\ hooks.onAdd # None
  /\ Len(atRequest) = NumChildren
  /\ Len(Hooked("onRemove")) = NumChildren

\* C6: setData and unregister of a record that is not in the registry leave
\* the registry alone and call no observer; setData calls no observer either
\* while onUpdate is unbound.
C6_AbsentNoOp ==
  [][/\ (lastOp'.op \in {"setData", "unregister"}
           /\ lastOp'.rec \notin Range(state)) =>
          (state' = state /\ notes' = <<>> /\ entries' = entries)
     /\ (lastOp'.op = "setData" /\ hooks.onUpdate = None) =>
          (state' = state /\ notes' = <<>> /\ entries' = entries)]_vars

C6_Witness ==
  /\ phase = "idle"
  /\ lastOp.op = "setData"
  /\ lastOp.rec \notin Range(state)
  /\ hooks.onUpdate # None
  /\ state # <<>>

\* C7 (as stated): in the coordinator with an externally supplied registry
\* array, unregister() of a handle whose entry is not in the array leaves the
\* array unchanged.
C7_AbsentUnregister ==
  [][(lastCall'.op = "unregister" /\ lastCall'.rec \notin Range(registryCurrent))
       => registryCurrent' = registryCurrent]_vars

\* descendants that hold a handle or whose teardown is still to run
Registered == {c \in Children : memo[c] # 0 \/ cleanup[c] # 0}

\* C8 (as stated): in every reachable state, also between the request of a
\* resync and its completion, the registry is as long as the number of
\* descendants that are mounted and registered.
C8_LengthIsMounted == Len(state) = Cardinality(Registered)

\* C8 (amended): while no render pass is in progress the registry is as long
\* as the number of mounted descendants, and in every state outside a resync
\* as long as the number of registered descendants. During a resync it holds
\* the records of the handles made so far and of the handles whose teardown is
\* still to run: for N descendants it grows to 2N before it returns to N.
C8_LengthIsHandles ==
  /\ phase = "idle" => Len(state) = Cardinality(mounted)
  /\ ~resync => Len(state) = Cardinality(Registered)
  /\ Range(state) =
       ({memo[c] : c \in Children} \cup {cleanup[c] : c \in Children}) \ {0}
  /\ Len(state) = Cardinality(Range(state))
  /\ Cardinality(Registered) <= Len(state)
  /\ Len(state) <= 2 * Cardinality(Registered)

C8_Witness ==
  /\ resync
  /\ phase = "layout"
  /\ Cardinality(mounted) = NumChildren
  /\ Len(state) = 2 * NumChildren

\* C9: whenever onUpdate(index, data) is called, the record at index is the
\* record whose setter was called and data is that record's value.
C9_UpdateIndex ==
  \A i \in 1..Len(notes) :
    notes[i].hook = "onUpdate" =>
      /\ lastOp.op = "setData"
      /\ notes[i].index \in 0..(Len(state) - 1)
      /\ state[notes[i].index + 1] = lastOp.rec
      /\ notes[i].data = current[lastOp.rec]
      /\ Len(notes) = 1

C9_Witness ==
  /\ Len(notes) = 1
  /\ notes[1].hook = "onUpdate"
  /\ notes[1].index # addedAt[lastOp.rec]
  /\ notes[1].data # Null

\* C10 (as stated): updateData is called only on an evaluation whose data
\* differs from the data of the previous evaluation, and not on the first
\* evaluation after the handle was obtained.
C10_OnlyChangedData ==
  [][lastCall'.op = "updateData" =>
       (~lastCall'.first /\ lastCall'.changed)]_vars

\* the observer calls of a pass: every onUpdate precedes every onRemove
UpdatesBeforeRemovals(tr) ==
  \A i, j \in 1..Len(tr) :
    (tr[i].hook = "onRemove" /\ tr[j].hook = "onUpdate") => j < i

AllBound == \A h \in {"onAdd", "onUpdate", "onRemove"} : hooks[h] # None
\* a whole-tree unmount has just completed, and before it there were only
\* mounts: every record ever made belonged to a descendant mounted at the end
UnmountedAfterMounts ==
  /\ ~alive
  /\ phase = "idle"
  /\ register = 0
  /\ nextRef - 1 = Len(deleted)
  /\ deleted # <<>>
  /\ trace # <<>>

\* the calls of a pass that only mounts descendants which attach their element:
\* one onAdd and one onUpdate with the element per descendant, no onRemove
MountCalls ==
  (OnlyMounts /\ usesRef /\ AllBound) =>
    LET adds == Hooked("onAdd")
        ups == Hooked("onUpdate")
    IN /\ Len(ups) = Len(adds)
       /\ Hooked("onRemove") = <<>>
       /\ \A i \in 1..Len(ups) :
            /\ ups[i].rec = adds[i].rec
            /\ ups[i].data = El(owner[ups[i].rec])

UseUpdateEvaluated == phase = "passiveMount" /\ phase' = "idle"
\* register.update() is called
UpdateCalled == triggerUpdate' = triggerUpdate + 1 /\ pendingUpdate'
\* no evaluation of useUpdate has completed before
FirstEvaluation == IF ignoreInitial THEN isInitial ELSE triggerUpdate = 0

\* C16: useUpdate with default options (ignoreInitial) does not call update()
\* on its first evaluation, calls it exactly once on each later evaluation
\* whose dependency list changed and never on one whose list is unchanged;
\* with ignoreInitial false it calls update() once on the first evaluation
\* too. Nothing else calls update().
C16_UpdateOnChange ==
  [][/\ UseUpdateEvaluated =>
          /\ UpdateCalled \/ UNCHANGED <<triggerUpdate, pendingUpdate>>
          /\ UpdateCalled <=>
               (depsChanged /\ ~(ignoreInitial /\ FirstEvaluation))
     /\ triggerUpdate' # triggerUpdate => UseUpdateEvaluated]_vars

C16_Witness ==
  /\ ignoreInitial
  /\ phase = "idle"
  /\ resync
  /\ triggerUpdate = 1
  /\ ~pendingUpdate
  /\ Len(order) = NumChildren

\* C17: a useKindergarten instance calls register() exactly once per context
\* value it observes: when it has no handle or its handle was made from another
\* context value; it calls unregister() of every handle it obtained exactly
\* once: in the pass in which the handle was replaced or the descendant left
\* the tree, while the record is still in the registry; when the pass has
\* completed the registry holds the handles in use and no others.
C17_OncePerHandle ==
  [][/\ lastOp'.op = "register" =>
          LET c == owner'[lastOp'.rec]
          IN /\ memo[c] = 0 \/ memoDep[c] # register
             /\ memo'[c] = lastOp'.rec
             /\ memoDep'[c] = register
     /\ (lastOp'.op = "unregister" /\ phase = "passiveUnmount") =>
          LET r == lastOp'.rec
              c == owner[r]
          IN /\ r \in Range(state)
             /\ r \notin Range(state')
             /\ cleanup[c] = r
             /\ cleanup'[c] = 0
             /\ c \in Range(deleted) \/ (memo[c] # r /\ memo[c] # 0)
     /\ \A c \in Children : \A d \in Children :
          (c # d /\ cleanup'[c] # 0) => cleanup'[c] # cleanup'[d]
     /\ phase' = "idle" =>
          /\ Range(state') = {memo'[c] : c \in mounted'}
          /\ \A c \in mounted' :
               /\ cleanup'[c] = memo'[c]
               /\ ~pendingUpdate' => memoDep'[c] = register'
          /\ \A c \in Children \ mounted' : memo'[c] = 0 /\ cleanup'[c] = 0
    ]_vars

C17_Witness ==
  /\ phase = "idle"
  /\ resync
  /\ alive
  /\ Len(state) = NumChildren
  /\ nextRef - 1 = 2 * NumChildren
  /\ \A c \in Children : memoDep[c] = register /\ register # 0

\* C18: after any sequence of mounts, attachments, data updates and resyncs,
\* once the whole tree is unmounted the registry is eventually empty and stays
\* empty, and so does a list maintained by createRegistry's callbacks.
C18_UnmountEmpties ==
  ~alive ~> [](state = <<>> /\ (mirrorOk => entries = <<>>))

C18_Witness ==
  /\ ~alive
  /\ phase = "idle"
  /\ mirrorOk
  /\ register # 0
  /\ nextRef - 1 = MaxRefs
  /\ state = <<>>
  /\ entries = <<>>
  /\ \E r \in 1..(nextRef - 1) : current[r] \in Data

\* C19: a re-render of the coordinator that rebinds onAdd, onUpdate or
\* onRemove leaves the record sequence, the records' values and the context
\* value unchanged, makes no descendant register or unregister and calls no
\* observer; every observer call made afterwards goes to the observer that is
\* bound to the hook at the time of the call.
C19_RebindKeepsRecords ==
  [][/\ hooks' # hooks =>
          /\ state' = state
          /\ current' = current
          /\ register' = register
          /\ triggerUpdate' = triggerUpdate
          /\ nextRef' = nextRef
          /\ UNCHANGED <<fibers, tree, phase, queue>>
          /\ notes' = <<>>
     /\ \A i \in 1..Len(notes') :
          /\ notes'[i].obs = hooks'[notes'[i].hook]
          /\ notes'[i].obs # None]_vars

C19_Witness ==
  /\ hooks = AllSpy
  /\ state # <<>>
  /\ Len(notes) = 1
  /\ notes[1].hook = "onUpdate"
  /\ notes[1].obs = Spy
  /\ \E r \in Range(state) : addedAt[r] = 0 /\ r = 1

\* C15 (as stated): a coordinator set up with both an externally supplied
\* registry and an observer callback prop fails at setup: no record is ever
\* added and no observer is ever invoked.
C15_BothIsError ==
  onRegister =>
    /\ kinds = <<>>
    /\ registryCurrent = <<>>
    /\ announced = <<>>

\* C14: when the registration primitive is evaluated with optional set and no
\* coordinator is bound, it raises no error and gives the descendant a
\* callable stand-in, and no registry is mutated and no observer invoked.
C14_OptionalStandIn ==
  \A c \in Children :
    (outside /\ optional /\ returned[c] # "none") =>
      /\ returned[c] = "ref"
      /\ registryCurrent = <<>>
      /\ kinds = <<>>
      /\ announced = <<>>

\* nothing of the registries or their records changes and no observer is called
NothingRegistered ==
  /\ regs' = regs
  /\ cell' = cell
  /\ home' = home
  /\ got' = got
  /\ heard' = <<>>

\* C13: evaluating the registration primitive without optional, or the resync
\* primitive, while no coordinator is bound to the resolved context ends in an
\* error in that very step, and the step mutates no registry, requests no
\* resync and invokes no observer.
C13_MissingCoordinator ==
  [][/\ \A k \in Children :
          (~provided[using[k]] /\ ~opt /\ EvaluateChild(k)) =>
            /\ thrown' = "useKindergarten"
            /\ NothingRegistered
            /\ trig' = trig
     /\ \A g \in Contexts :
          (~provided[g] /\ EvaluateUseUpdate(g)) =>
            /\ thrown' = "useUpdate"
            /\ NothingRegistered
            /\ trig' = trig]_vars

\* an evaluation has thrown while another coordinator holds records
C13_Witness ==
  /\ thrown # "none"
  /\ \E g \in Contexts : regs[g] # <<>>
  /\ \E k \in Children : at[k] = "failed"

\* the coordinator bound to h, its records and its observers are left alone
Untouched(h) ==
  /\ regs'[h] = regs[h]
  /\ trig'[h] = trig[h]
  /\ \A r \in 1..MaxRefs : home[r] = h => cell'[r] = cell[r] /\ home'[r] = h
  /\ \A i \in 1..Len(heard') : heard'[i].garden # h
  /\ \A k \in Children : using[k] = h => gotFrom'[k] = gotFrom[k]

\* the step is an operation of a descendant registered through the context
\* g, a commit of such descendants only, or a resync of the coordinator bound
\* to g
ActsThrough(g) ==
  \/ \E k \in Children :
       /\ using[k] = g
       /\ \/ EvaluateChild(k)
          \/ k = keeper /\ \E data \in Data : UseSetter(k, data)
          \/ RemoveChild(k)
  \/ /\ \A j \in Children : at[j] = "rendered" => using[j] = g
     /\ Commit
  \/ EvaluateUseUpdate(g)
  \/ EvaluateKindergarten(g)

\* C20: with a coordinator bound to each of two contexts, every operation of a
\* descendant registered through one of them (register, attach, detach, data
\* update, unregister) and every resync of one of them leaves the other
\* coordinator's registry and records unchanged, requests no resync of it and
\* invokes none of its observers.
C20_Independent ==
  [][(\A g \in Contexts : provided[g]) =>
       \A g, h \in Contexts :
         g # h => (Untouched(h) \/ ~ActsThrough(g))]_vars

\* both coordinators hold a record and a descendant of one has just been
\* re-registered by a resync
C20_Witness ==
  /\ \A g \in Contexts : provided[g] /\ Len(regs[g]) = 1
  /\ Len(heard) = 3
  /\ heard[3].hook = "onRemove"

\* C21 (as stated): after a resync has completed, the record of every mounted
\* descendant carries the value its record carried immediately before the
\* resync was requested, also a value that a setter call had stored.
C21_DataKept ==
  (phase = "idle" /\ resync) =>
    \A i \in 1..Len(atRequest) :
      current[memo[owner[atRequest[i]]]] = dataAtRequest[i]

\* C21 (amended): after a resync has completed, every descendant that had a
\* record at the request is still mounted and has a new record, whose value is
\* the descendant's element if the descendants pass the setter as ref and null
\* if they do not, whatever the old record carried.
C21_DataReset ==
  (phase = "idle" /\ resync) =>
    \A i \in 1..Len(atRequest) :
      LET c == owner[atRequest[i]]
      IN /\ c \in mounted
         /\ memo[c] \notin Range(atRequest)
         /\ memo[c] \in Range(state)
         /\ current[memo[c]] = IF usesRef THEN El(c) ELSE Null

\* a resync has completed for a record that carried a value stored by a
\* setter call
C21_Witness ==
  /\ phase = "idle"
  /\ resync
  /\ \E i \in 1..Len(atRequest) : dataAtRequest[i] \in Data

C23_MirrorList ==
  mirrorOk =>
    /\ Len(entries) = Len(state)
    /\ \A i \in 1..Len(state) : entries[i] = current[state[i]]

\* in the middle of a resync the registry holds the old and the new records,
\* the old ones detached and the first new one attached
C23_Witness ==
  /\ mirrorOk
  /\ resync
  /\ phase = "layout"
  /\ Len(state) = 2 * NumChildren
  /\ entries[1] = Null
  /\ entries[NumChildren + 1] # Null
  /\ queue # <<>>

\* C24: no record is orphaned. Every record a registry stores belongs to a
\* descendant whose unregister effect is installed for it, or to an evaluation
\* of the pass under way, whose commit installs that effect; this also when
\* the evaluation that registered it was discarded before its effects ran.
C24_NoOrphan ==
  \A g \in Contexts : \A i \in 1..Len(regs[g]) :
    \/ \E k \in Children : fx[k] = regs[g][i]
    \/ /\ thrown = "none"
       /\ \E k \in Children : at[k] = "rendered" /\ got[k] = regs[g][i]

\* C25: for every record, onAdd is heard when the record is created and
\* stored, so before anything else about it; onUpdate is heard only while the
\* record is stored; onRemove is heard when it leaves the registry; and a
\* record that has left never comes back, so nothing is heard about it
\* afterwards, whichever handle calls follow.
C25_NotifyOrder ==
  [][/\ \A i \in 1..Len(notes') :
          LET r == notes'[i].rec
          IN /\ notes'[i].hook = "onAdd" =>
                  r \notin DOMAIN current /\ r \in Range(state')
             /\ notes'[i].hook = "onUpdate" =>
                  r \in Range(state) /\ r \in Range(state')
             /\ notes'[i].hook = "onRemove" =>
                  r \in Range(state) /\ r \notin Range(state')
     /\ \A r \in DOMAIN current :
          r \notin Range(state) => r \notin Range(state')]_vars

\* a setter kept by the consumer is called after its record was removed,
\* with onUpdate bound, and nothing is heard
C25_Witness ==
  /\ lastOp.op = "setData"
  /\ lastOp.rec \notin Range(state)
  /\ current[lastOp.rec] \in Data
  /\ hooks.onUpdate # None
  /\ state # <<>>
  /\ notes = <<>>

\* C26: no record occurs twice in the registry and no two descendants hold
\* the same record: every call of the coordinator callable appends a record
\* that was never made, stored or handed out before.
C26_FreshRecords ==
  [][/\ \A i, j \in 1..Len(state') : state'[i] = state'[j] => i = j
     /\ \A c, d \in Children :
          (memo'[c] # 0 /\ memo'[c] = memo'[d]) => c = d
     /\ lastOp'.op = "register" =>
          LET r == lastOp'.rec
          IN /\ r \notin DOMAIN current
             /\ state' = Append(state, r)
             /\ \A c \in Children :
                  memo[c] # r /\ cleanup[c] # r /\ refcb[c] # r]_vars

\* the last call of a resync: every descendant holds a new record while its
\* old one is still stored
C26_Witness ==
  /\ resync
  /\ lastOp.op = "register"
  /\ Len(state) = 2 * NumChildren
  /\ state[Len(state)] = lastOp.rec
  /\ \A c \in Children :
       /\ cleanup[c] \in Range(state)
       /\ memo[c] \in Range(state)
       /\ memo[c] # cleanup[c]

====
